---- MODULE Spec2Model ----
(***************************************************************************)
(* Model of ReactFlightClientWebpackBundlerConfig.js: the chunk cache, the *)
(* async module cache, preloadModule, requireModule and the promise        *)
(* reactions preloadModule registers, run on a single-threaded event loop  *)
(* (synchronous calls and host tasks first, then the promise job queue is  *)
(* drained in FIFO order).                                                 *)
(***************************************************************************)
EXTENDS Integers, Sequences, FiniteSets, TLC

\* ------------------------------------------------------------------------
\* Bounds of the exploration
\* ------------------------------------------------------------------------
\* total number of __webpack_chunk_load__ invocations explored
MaxLoads == 2
\* total number of tracked completions (async preloads) explored
MaxCompletions == 2

\* ------------------------------------------------------------------------
\* JavaScript values that flow through the caches and out of requireModule
\* ------------------------------------------------------------------------
Undefined == [k |-> "undefined"]
Null == [k |-> "null"]
Err(e) == [k |-> "error", e |-> e]
ChunkPromise(h) == [k |-> "chunkPromise", h |-> h]
ModulePromise(p) == [k |-> "modulePromise", p |-> p]
ExportsObject(m) == [k |-> "exports", m |-> m]
Prim(v) == [k |-> "prim", v |-> v]

IsHandle(v) == v.k \in {"chunkPromise", "modulePromise"}

\* ------------------------------------------------------------------------
\* The environment: load units, modules, the references the stream delivers,
\* and the host (webpack) side of the contract
\* ------------------------------------------------------------------------
Chunks == {"c1", "c2"}
Modules == {"m1", "m2", "m3"}

\* ModuleMetaData values handed to preloadModule / requireModule
Refs ==
  { [id |-> "m1", chunks |-> <<"c1", "c2">>, name |-> "foo", async |-> FALSE],
    [id |-> "m2", chunks |-> <<"c1">>,       name |-> "*",   async |-> TRUE],
    [id |-> "m3", chunks |-> <<"c2", "c2">>, name |-> "",    async |-> FALSE],
    [id |-> "m2", chunks |-> <<"c1">>,       name |-> "",    async |-> TRUE] }

\* values a host load can reject with
RejectReasons == {Err("E1"), Err("E2"), Null, Undefined}

\* the load units that hold the code of each module (host side)
ModuleChunks == [m \in Modules |->
  CASE m = "m1" -> {"c1", "c2"}
    [] m = "m2" -> {"c1"}
    [] m = "m3" -> {"c2"}]

\* the exports object each module evaluates to (host side)
ModuleExports == [m \in Modules |->
  CASE m = "m1" -> [esModule |-> TRUE,  names |-> {"default", "foo"}]
    [] m = "m2" -> [esModule |-> FALSE, names |-> {"x"}]
    [] m = "m3" -> [esModule |-> TRUE,  names |-> {"default"}]]

\* moduleExports[name] for an exports object
GetProp(exports, name) ==
  IF name \in ModuleExports[exports.m].names
  THEN Prim(<<exports.m, name>>)
  ELSE Undefined

\* the fields of a reference that preloadModule reads (it never reads name)
Preloadable(moduleData) ==
  [id |-> moduleData.id, chunks |-> moduleData.chunks, async |-> moduleData.async]

VARIABLES
  chunkCache,        \* chunkCache.get(chunkId): Undefined, a promise, Null or a rejection value
  asyncModuleCache,  \* asyncModuleCache.get(id): Undefined or a tracked completion
  chunkLoads,        \* the promises returned by __webpack_chunk_load__, in call order
  completions,       \* the modulePromise objects created by preloadModule, in creation order
  loadCalls,         \* number of __webpack_chunk_load__(chunkId) invocations, per chunk
  asyncRequires,     \* number of __webpack_require__(id) invocations from line 76, per module
  microtasks,        \* the promise job queue
  phase,             \* the event loop: "sync" while callers' synchronous code may run,
                     \* "host" once the host task that settles loads has begun,
                     \* "jobs" while the job queue is being drained
  preloaded,         \* the references preloadModule has been called on (the fields it reads)
  task,              \* the scheduler's suspended render pass, if any: the reference it
                     \* requires, the handle it waits on, and whether the reference had
                     \* been preloaded when the pass began
  lastReq            \* the call made in the latest step and its outcome, if any

vars == <<chunkCache, asyncModuleCache, chunkLoads, completions, loadCalls,
          asyncRequires, microtasks, phase, preloaded, task, lastReq>>

NoTask == [st |-> "idle"]
NoReq == [t |-> "none"]

Init ==
  /\ chunkCache = [c \in Chunks |-> Undefined]
  /\ asyncModuleCache = [m \in Modules |-> Undefined]
  /\ chunkLoads = <<>>
  /\ completions = <<>>
  /\ loadCalls = [c \in Chunks |-> 0]
  /\ asyncRequires = [m \in Modules |-> 0]
  /\ microtasks = <<>>
  /\ phase = "sync"
  /\ preloaded = {}
  /\ task = NoTask
  /\ lastReq = NoReq

\* ------------------------------------------------------------------------
\* Promise machinery
\* ------------------------------------------------------------------------
\* the jobs queued when a promise with reactions subs settles
RECURSIVE JobsFor(_, _, _)
JobsFor(subs, ok, arg) ==
  IF subs = <<>> THEN <<>>
  ELSE <<[r |-> Head(subs), ok |-> ok, arg |-> arg]>> \o JobsFor(Tail(subs), ok, arg)

\* the host has installed chunk c: some load of it settled successfully
HostLoaded(c) ==
  \E h \in 1..Len(chunkLoads) : chunkLoads[h].chunk = c /\ chunkLoads[h].st = "fulfilled"

\* __webpack_require__(id): the exports once the module's chunks are installed,
\* a thrown error before that
HostRequire(id) ==
  IF \A c \in ModuleChunks[id] : HostLoaded(c)
  THEN [ok |-> TRUE, v |-> ExportsObject(id)]
  ELSE [ok |-> FALSE, v |-> Err("ModuleNotFound")]

\* ------------------------------------------------------------------------
\* preloadModule (lines 59-90)
\* ------------------------------------------------------------------------
\* the promise __webpack_chunk_load__(chunkId) returns, with the reaction
\* thenable.then(resolve, reject) of line 70 registered on it
NewChunkLoad(chunkId) ==
  [chunk |-> chunkId, st |-> "pending", reason |-> Undefined,
   subs |-> <<[job |-> "cacheSet", chunk |-> chunkId]>>]

\* the for loop of lines 62-73 as it would be if it ran from the last unit
\* of the list to the first
RECURSIVE PreloadChunks_LastFirst(_, _, _)
PreloadChunks_LastFirst(chunks, i, s) ==
  IF i > Len(chunks) THEN s
  ELSE LET chunkId == chunks[Len(chunks) + 1 - i]
           entry == s.cache[chunkId]
           h == Len(s.loads) + 1
       IN IF entry = Undefined
          THEN PreloadChunks_LastFirst(chunks, i + 1,
                 [cache |-> [s.cache EXCEPT ![chunkId] = ChunkPromise(h)],
                  loads |-> Append(s.loads, NewChunkLoad(chunkId)),
                  promises |-> Append(s.promises, h),
                  calls |-> [s.calls EXCEPT ![chunkId] = @ + 1]])
          ELSE PreloadChunks_LastFirst(chunks, i + 1, s)

\* the for loop of lines 62-73 from index i on; s carries the chunk cache,
\* the promises the host loader returned, the local array promises and the
\* loader invocation counts
RECURSIVE PreloadChunks(_, _, _)
PreloadChunks(chunks, i, s) ==
  IF i > Len(chunks) THEN s
  ELSE LET chunkId == chunks[i]
           entry == s.cache[chunkId]
           h == Len(s.loads) + 1
       IN IF entry = Undefined
          THEN PreloadChunks(chunks, i + 1,
                 [cache |-> [s.cache EXCEPT ![chunkId] = ChunkPromise(h)],
                  loads |-> Append(s.loads, NewChunkLoad(chunkId)),
                  promises |-> Append(s.promises, h),
                  calls |-> [s.calls EXCEPT ![chunkId] = @ + 1]])
          ELSE PreloadChunks(chunks, i + 1, s)

\* Promise.all(promises) of line 75 subscribes to every collected promise
\* (after the reaction of line 70 was registered on it)
RECURSIVE SubscribeAll(_, _, _)
SubscribeAll(loads, promises, p) ==
  IF promises = <<>> THEN loads
  ELSE SubscribeAll(
         [loads EXCEPT ![Head(promises)].subs =
            Append(@, [job |-> "allElement", p |-> p])],
         Tail(promises), p)

\* the modulePromise of lines 75-87: waiting counts the elements of
\* Promise.all still outstanding, allSt is the state of the Promise.all
\* promise, st/result the state of modulePromise itself, status/value/reason
\* the fields set by the callbacks of lines 78-87, subs the reactions
\* registered on modulePromise (the status callbacks of line 78 come first)
NewCompletion(id, p, n) ==
  [id |-> id, waiting |-> n,
   allSt |-> IF n = 0 THEN "fulfilled" ELSE "pending",
   st |-> "pending", result |-> Undefined,
   status |-> "pending", value |-> Undefined, reason |-> Undefined,
   subs |-> <<[job |-> "setStatus", p |-> p]>>]

\* the entry preloadModule leaves in asyncModuleCache for moduleData.id (line 88)
AsyncCacheAfterPreload(cache, id, p) ==
  [cache EXCEPT ![id] = ModulePromise(p)]

preloadModule(moduleData) ==
  LET s == PreloadChunks(moduleData.chunks, 1,
             [cache |-> chunkCache, loads |-> chunkLoads,
              promises |-> <<>>, calls |-> loadCalls])
      p == Len(completions) + 1
  IN /\ phase = "sync"
     /\ Len(s.loads) <= MaxLoads
     /\ chunkCache' = s.cache
     /\ loadCalls' = s.calls
     /\ preloaded' = preloaded \cup {Preloadable(moduleData)}
     /\ IF moduleData.async
        THEN /\ p <= MaxCompletions
             /\ chunkLoads' = SubscribeAll(s.loads, s.promises, p)
             /\ completions' =
                  Append(completions, NewCompletion(moduleData.id, p, Len(s.promises)))
             /\ asyncModuleCache' = AsyncCacheAfterPreload(asyncModuleCache, moduleData.id, p)
             /\ microtasks' =
                  IF s.promises = <<>>
                  THEN Append(microtasks,
                         [r |-> [job |-> "materialize", p |-> p], ok |-> TRUE, arg |-> Undefined])
                  ELSE microtasks
        ELSE /\ chunkLoads' = s.loads
             /\ UNCHANGED <<completions, asyncModuleCache, microtasks>>
     /\ lastReq' = NoReq
     /\ UNCHANGED <<asyncRequires, phase, task>>

\* ------------------------------------------------------------------------
\* The host settles a chunk load (outside this file; the contract of
\* __webpack_chunk_load__)
\* ------------------------------------------------------------------------
SettleChunk(h, ok, reason) ==
  /\ phase # "jobs"
  /\ h \in 1..Len(chunkLoads)
  /\ chunkLoads[h].st = "pending"
  /\ chunkLoads' = [chunkLoads EXCEPT
       ![h].st = IF ok THEN "fulfilled" ELSE "rejected",
       ![h].reason = reason,
       ![h].subs = <<>>]
  /\ microtasks' = microtasks \o JobsFor(chunkLoads[h].subs, ok, reason)
  /\ lastReq' = NoReq
  /\ phase' = "host"
  /\ UNCHANGED <<chunkCache, asyncModuleCache, completions, loadCalls,
                 asyncRequires, preloaded, task>>

ChunkLoadFulfils(h) == SettleChunk(h, TRUE, Undefined)

ChunkLoadRejects(h, reason) == SettleChunk(h, FALSE, reason)

\* ------------------------------------------------------------------------
\* requireModule (lines 94-132)
\* ------------------------------------------------------------------------
\* lines 121-131 as they would be without the __esModule test of line 128:
\* name "" always reads the default binding
Project_AlwaysDefault(moduleExports, name) ==
  IF name = "*" THEN moduleExports
  ELSE IF name = ""
       THEN GetProp(moduleExports, "default")
       ELSE GetProp(moduleExports, name)

\* the export projection of lines 121-131
Project(moduleExports, name) ==
  IF name = "*" THEN moduleExports
  ELSE IF name = ""
       THEN IF ModuleExports[moduleExports.m].esModule
            THEN GetProp(moduleExports, "default")
            ELSE moduleExports
       ELSE GetProp(moduleExports, name)

Return(v, mat) == [t |-> "return", v |-> v, mat |-> mat]
Throw(v, mat) == [t |-> "throw", v |-> v, mat |-> mat]

\* the scan of lines 109-118 as it would be if it ran from the last unit to
\* the first
RECURSIVE ScanChunks_LastFirst(_, _)
ScanChunks_LastFirst(chunks, i) ==
  IF i > Len(chunks) THEN [thrown |-> FALSE]
  ELSE LET entry == chunkCache[chunks[Len(chunks) + 1 - i]]
       IN IF entry # Null
          THEN [thrown |-> TRUE, entry |-> entry]
          ELSE ScanChunks_LastFirst(chunks, i + 1)

\* the scan of lines 109-118 as it would be with a truthiness test
\* (if (entry)) in place of entry !== null: an absent unit is passed over
RECURSIVE ScanChunks_SkipsAbsent(_, _)
ScanChunks_SkipsAbsent(chunks, i) ==
  IF i > Len(chunks) THEN [thrown |-> FALSE]
  ELSE LET entry == chunkCache[chunks[i]]
       IN IF entry # Null /\ entry # Undefined
          THEN [thrown |-> TRUE, entry |-> entry]
          ELSE ScanChunks_SkipsAbsent(chunks, i + 1)

\* the for loop of lines 109-118 from index i on: the entry it throws, if any
RECURSIVE ScanChunks(_, _)
ScanChunks(chunks, i) ==
  IF i > Len(chunks) THEN [thrown |-> FALSE]
  ELSE LET entry == chunkCache[chunks[i]]
       IN IF entry # Null
          THEN [thrown |-> TRUE, entry |-> entry]
          ELSE ScanChunks(chunks, i + 1)

\* the async branch as it would be if a rejected completion were thrown
\* like a pending one instead of its reason
RequireAsync_ThrowsRejectedHandle(moduleData) ==
  LET promise == asyncModuleCache[moduleData.id]
  IN IF promise = Undefined
     THEN Throw(Err("TypeError"), FALSE)
     ELSE LET c == completions[promise.p]
          IN IF c.status = "fulfilled"
             THEN Return(Project(c.value, moduleData.name), FALSE)
             ELSE Throw(promise, FALSE)

\* the async branch, lines 96-106
RequireAsync(moduleData) ==
  LET promise == asyncModuleCache[moduleData.id]
  IN IF promise = Undefined
     THEN Throw(Err("TypeError"), FALSE)
     ELSE LET c == completions[promise.p]
          IN IF c.status = "fulfilled"
             THEN Return(Project(c.value, moduleData.name), FALSE)
             ELSE IF c.status = "rejected"
                  THEN Throw(c.reason, FALSE)
                  ELSE Throw(promise, FALSE)

\* the sync branch, lines 107-120
RequireSync(moduleData) ==
  LET scan == ScanChunks(moduleData.chunks, 1)
      r == HostRequire(moduleData.id)
  IN IF scan.thrown
     THEN Throw(scan.entry, FALSE)
     ELSE IF r.ok
          THEN Return(Project(r.v, moduleData.name), TRUE)
          ELSE Throw(r.v, TRUE)

\* requireModule as it would be if the sync scan requested an absent unit
\* from the host loader instead of throwing the absent entry
requireModule_LoadsAbsent(moduleData) ==
  LET out == IF moduleData.async THEN RequireAsync(moduleData) ELSE RequireSync(moduleData)
      absent == {c \in Chunks : \E i \in 1..Len(moduleData.chunks) :
                   moduleData.chunks[i] = c /\ chunkCache[c] = Undefined}
      c == CHOOSE c \in absent : TRUE
  IN IF ~moduleData.async /\ absent # {}
     THEN [t |-> "throw", v |-> ChunkPromise(Len(chunkLoads) + 1), mat |-> FALSE,
           cache |-> [chunkCache EXCEPT ![c] = ChunkPromise(Len(chunkLoads) + 1)],
           asyncCache |-> asyncModuleCache, loads |-> <<NewChunkLoad(c)>>]
     ELSE [t |-> out.t, v |-> out.v, mat |-> out.mat,
           cache |-> chunkCache, asyncCache |-> asyncModuleCache, loads |-> <<>>]

\* what a call requireModule(moduleData) does in the current state: the
\* value it returns or throws, whether line 119 ran (mat), the two caches
\* as the call leaves them and the promises of the host-loader invocations
\* it made (the function has no write to either cache and no call of
\* __webpack_chunk_load__)
requireModule(moduleData) ==
  LET out == IF moduleData.async THEN RequireAsync(moduleData) ELSE RequireSync(moduleData)
  IN [t |-> out.t, v |-> out.v, mat |-> out.mat,
      cache |-> chunkCache, asyncCache |-> asyncModuleCache, loads |-> <<>>]

\* the record kept of a requireModule call
ReqRecord(moduleData, out, retry, prev, pre) ==
  [ref |-> moduleData, t |-> out.t, v |-> out.v, mat |-> out.mat,
   retry |-> retry, prev |-> prev, pre |-> pre]

\* ------------------------------------------------------------------------
\* The scheduler (outside this file): on a thrown handle it subscribes a
\* retry with handle.then(retry, retry) and re-invokes requireModule from it
\* ------------------------------------------------------------------------
RetryJob == [job |-> "retry"]

SubscribedLoads(loads, v) ==
  IF v.k = "chunkPromise" /\ loads[v.h].st = "pending"
  THEN [loads EXCEPT ![v.h].subs = Append(@, RetryJob)]
  ELSE loads

SubscribedCompletions(v) ==
  IF v.k = "modulePromise" /\ completions[v.p].st = "pending"
  THEN [completions EXCEPT ![v.p].subs = Append(@, RetryJob)]
  ELSE completions

\* jobs queued at once because the handle subscribed to has already settled
SubscribedJobs(loads, v) ==
  IF v.k = "chunkPromise" /\ loads[v.h].st # "pending"
  THEN <<[r |-> RetryJob, ok |-> loads[v.h].st = "fulfilled", arg |-> loads[v.h].reason]>>
  ELSE IF v.k = "modulePromise" /\ completions[v.p].st # "pending"
       THEN <<[r |-> RetryJob, ok |-> completions[v.p].st = "fulfilled", arg |-> completions[v.p].result]>>
       ELSE <<>>

\* the host-loader invocation counts after the loads in new were requested
CountLoads(new) ==
  [c \in Chunks |-> loadCalls[c] + Cardinality({i \in 1..Len(new) : new[i].chunk = c})]

\* a synchronous requireModule call by some caller; with subscribe the caller
\* is the scheduler's render pass, which suspends on the thrown handle
CallRequireModule(moduleData, subscribe) ==
  LET out == requireModule(moduleData)
      loads == chunkLoads \o out.loads
  IN /\ phase = "sync"
     /\ lastReq' = ReqRecord(moduleData, out, FALSE, Undefined, Preloadable(moduleData) \in preloaded)
     /\ chunkCache' = out.cache
     /\ asyncModuleCache' = out.asyncCache
     /\ loadCalls' = CountLoads(out.loads)
     /\ IF subscribe
        THEN /\ task.st # "waiting"
             /\ out.t = "throw" /\ IsHandle(out.v)
             /\ task' = [st |-> "waiting", ref |-> moduleData, v |-> out.v,
                         pre |-> Preloadable(moduleData) \in preloaded]
             /\ chunkLoads' = SubscribedLoads(loads, out.v)
             /\ completions' = SubscribedCompletions(out.v)
             /\ microtasks' = microtasks \o SubscribedJobs(loads, out.v)
        ELSE /\ chunkLoads' = loads
             /\ UNCHANGED <<task, completions, microtasks>>
     /\ UNCHANGED <<asyncRequires, phase, preloaded>>

\* ------------------------------------------------------------------------
\* The promise job queue
\* ------------------------------------------------------------------------
Job == Head(microtasks)

PopJob(job, new) ==
  /\ microtasks # <<>>
  /\ Job.r.job = job
  /\ microtasks' = Tail(microtasks) \o new
  /\ phase' = IF Tail(microtasks) \o new # <<>> THEN "jobs" ELSE "sync"

\* what the callbacks of lines 68-69 store: resolve is
\* chunkCache.set.bind(chunkCache, chunkId, null), reject is
\* chunkCache.set.bind(chunkCache, chunkId)
CacheSetValue(ok, arg) == IF ok THEN Null ELSE arg

RunCacheSet ==
  /\ PopJob("cacheSet", <<>>)
  /\ chunkCache' = [chunkCache EXCEPT ![Job.r.chunk] = CacheSetValue(Job.ok, Job.arg)]
  /\ UNCHANGED <<asyncModuleCache, chunkLoads, completions, loadCalls,
                 asyncRequires, preloaded, task>>
  /\ lastReq' = NoReq

\* Promise.all's reaction to one of its elements settling
RunAllElement ==
  LET p == Job.r.p
      c == completions[p]
      last == Job.ok /\ c.waiting = 1
      settles == c.allSt = "pending" /\ (last \/ ~Job.ok)
  IN /\ PopJob("allElement",
               IF settles
               THEN <<[r |-> [job |-> "materialize", p |-> p], ok |-> Job.ok, arg |-> Job.arg]>>
               ELSE <<>>)
     /\ completions' =
          IF c.allSt # "pending" THEN completions
          ELSE IF Job.ok
               THEN [completions EXCEPT ![p].waiting = @ - 1,
                                        ![p].allSt = IF last THEN "fulfilled" ELSE "pending"]
               ELSE [completions EXCEPT ![p].allSt = "rejected"]
     /\ UNCHANGED <<chunkCache, asyncModuleCache, chunkLoads, loadCalls,
                    asyncRequires, preloaded, task>>
     /\ lastReq' = NoReq

\* the reaction .then(() => __webpack_require__(moduleData.id)) of lines
\* 75-77; a rejection of Promise.all passes through to modulePromise
RunMaterialize ==
  LET p == Job.r.p
      c == completions[p]
      r == IF Job.ok THEN HostRequire(c.id) ELSE [ok |-> FALSE, v |-> Job.arg]
  IN /\ PopJob("materialize", JobsFor(c.subs, r.ok, r.v))
     /\ completions' = [completions EXCEPT
          ![p].st = IF r.ok THEN "fulfilled" ELSE "rejected",
          ![p].result = r.v,
          ![p].subs = <<>>]
     /\ asyncRequires' =
          IF Job.ok THEN [asyncRequires EXCEPT ![c.id] = @ + 1] ELSE asyncRequires
     /\ UNCHANGED <<chunkCache, asyncModuleCache, chunkLoads, loadCalls,
                    preloaded, task>>
     /\ lastReq' = NoReq

\* the callbacks of lines 78-87
RunSetStatus ==
  LET p == Job.r.p
  IN /\ PopJob("setStatus", <<>>)
     /\ completions' =
          IF Job.ok
          THEN [completions EXCEPT ![p].status = "fulfilled", ![p].value = Job.arg]
          ELSE [completions EXCEPT ![p].status = "rejected", ![p].reason = Job.arg]
     /\ UNCHANGED <<chunkCache, asyncModuleCache, chunkLoads, loadCalls,
                    asyncRequires, preloaded, task>>
     /\ lastReq' = NoReq

\* the scheduler's retry: requireModule is re-invoked; a handle thrown again
\* is subscribed to again
RunRetry ==
  LET out == requireModule(task.ref)
      loads == chunkLoads \o out.loads
      again == out.t = "throw" /\ IsHandle(out.v)
  IN /\ PopJob("retry", IF again THEN SubscribedJobs(loads, out.v) ELSE <<>>)
     /\ lastReq' = ReqRecord(task.ref, out, TRUE, task.v, task.pre)
     /\ chunkCache' = out.cache
     /\ asyncModuleCache' = out.asyncCache
     /\ loadCalls' = CountLoads(out.loads)
     /\ task' = IF again THEN [task EXCEPT !.v = out.v] ELSE NoTask
     /\ chunkLoads' = IF again THEN SubscribedLoads(loads, out.v) ELSE loads
     /\ completions' = IF again THEN SubscribedCompletions(out.v) ELSE completions
     /\ UNCHANGED <<asyncRequires, preloaded>>

\* ------------------------------------------------------------------------
\* resolveModuleReference (lines 30-48)
\* ------------------------------------------------------------------------
\* a WebpackSSRMap (lines 11-16): client id -> export name -> ModuleMetaData
SSRMap ==
  [id \in {"s1", "s2"} |->
     IF id = "s1"
     THEN [name \in {"foo", "*"} |->
             [id |-> "m1", chunks |-> <<"c1", "c2">>, name |-> name,
              async |-> (name = "*")]]
     ELSE [name \in {"*", ""} |->
             [id |-> "m2", chunks |-> <<"c1">>, name |-> name,
              async |-> (name = "")]]]

\* the BundlerConfig values of line 18
BundlerConfigs == {Null, SSRMap}

\* the references the stream delivers before resolution
RawRefs ==
  [id : {"s1", "s2"}, chunks : {<<"c2">>}, name : {"foo", "*", ""}, async : BOOLEAN]
    \cup Refs

\* the value a call returns, with the object it is: the argument moduleData,
\* the bundlerConfig entry resolvedModuleData, or a new object literal
ReturnObject(obj, v) == [t |-> "return", obj |-> obj, v |-> v]

\* lines 34-47 as they would be if the new reference of lines 37-42 copied
\* the async flag of the entry
resolveModuleReference_CopiesAsync(bundlerConfig, moduleData) ==
  IF bundlerConfig # Null
  THEN IF moduleData.id \notin DOMAIN bundlerConfig
       THEN [t |-> "throw", v |-> Err("TypeError")]
       ELSE LET resolvedModuleData ==
                  IF moduleData.name \in DOMAIN bundlerConfig[moduleData.id]
                  THEN bundlerConfig[moduleData.id][moduleData.name]
                  ELSE Undefined
            IN IF moduleData.async
               THEN IF resolvedModuleData = Undefined
                    THEN [t |-> "throw", v |-> Err("TypeError")]
                    ELSE ReturnObject("new",
                           [id |-> resolvedModuleData.id,
                            chunks |-> resolvedModuleData.chunks,
                            name |-> resolvedModuleData.name,
                            async |-> resolvedModuleData.async])
               ELSE ReturnObject("resolvedModuleData", resolvedModuleData)
  ELSE ReturnObject("moduleData", moduleData)

\* lines 34-47; a property read on undefined (a missing id, or a missing
\* name on the async branch) throws a TypeError
resolveModuleReference(bundlerConfig, moduleData) ==
  IF bundlerConfig # Null
  THEN IF moduleData.id \notin DOMAIN bundlerConfig
       THEN [t |-> "throw", v |-> Err("TypeError")]
       ELSE LET resolvedModuleData ==
                  IF moduleData.name \in DOMAIN bundlerConfig[moduleData.id]
                  THEN bundlerConfig[moduleData.id][moduleData.name]
                  ELSE Undefined
            IN IF moduleData.async
               THEN IF resolvedModuleData = Undefined
                    THEN [t |-> "throw", v |-> Err("TypeError")]
                    ELSE ReturnObject("new",
                           [id |-> resolvedModuleData.id,
                            chunks |-> resolvedModuleData.chunks,
                            name |-> resolvedModuleData.name,
                            async |-> TRUE])
               ELSE ReturnObject("resolvedModuleData", resolvedModuleData)
  ELSE ReturnObject("moduleData", moduleData)

\* a caller resolves a reference; lastReq records the call and its outcome
CallResolveModuleReference(bundlerConfig, moduleData) ==
  /\ phase = "sync"
  /\ lastReq' = [t |-> "resolve", bundlerConfig |-> bundlerConfig,
                 moduleData |-> moduleData,
                 out |-> resolveModuleReference(bundlerConfig, moduleData)]
  /\ UNCHANGED <<chunkCache, asyncModuleCache, chunkLoads, completions, loadCalls,
                 asyncRequires, microtasks, phase, preloaded, task>>

\* ------------------------------------------------------------------------
\* The system
\* ------------------------------------------------------------------------
Next ==
  \/ \E moduleData \in Refs : preloadModule(moduleData)
  \/ \E moduleData \in Refs, subscribe \in BOOLEAN : CallRequireModule(moduleData, subscribe)
  \/ \E h \in 1..Len(chunkLoads) : ChunkLoadFulfils(h)
  \/ \E h \in 1..Len(chunkLoads), reason \in RejectReasons : ChunkLoadRejects(h, reason)
  \/ RunCacheSet
  \/ RunAllElement
  \/ RunMaterialize
  \/ RunSetStatus
  \/ RunRetry

Spec == Init /\ [][Next]_vars

\* the same system with a host loader that rejects with Error values only
\* (the chunkCache value type of line 54)
ErrorReasons == {reason \in RejectReasons : reason.k = "error"}

NextErrorRejections ==
  \/ \E moduleData \in Refs : preloadModule(moduleData)
  \/ \E moduleData \in Refs, subscribe \in BOOLEAN : CallRequireModule(moduleData, subscribe)
  \/ \E h \in 1..Len(chunkLoads) : ChunkLoadFulfils(h)
  \/ \E h \in 1..Len(chunkLoads), reason \in ErrorReasons : ChunkLoadRejects(h, reason)
  \/ RunCacheSet
  \/ RunAllElement
  \/ RunMaterialize
  \/ RunSetStatus
  \/ RunRetry

SpecErrorRejections == Init /\ [][NextErrorRejections]_vars

\* a client that resolves and preloads references while loads complete
NextResolve ==
  \/ \E bundlerConfig \in BundlerConfigs, moduleData \in RawRefs :
       CallResolveModuleReference(bundlerConfig, moduleData)
  \/ \E moduleData \in Refs : preloadModule(moduleData)
  \/ \E h \in 1..Len(chunkLoads) : ChunkLoadFulfils(h)
  \/ \E h \in 1..Len(chunkLoads), reason \in RejectReasons : ChunkLoadRejects(h, reason)
  \/ RunCacheSet
  \/ RunAllElement
  \/ RunMaterialize
  \/ RunSetStatus

SpecResolve == Init /\ [][NextResolve]_vars

\* ------------------------------------------------------------------------
\* Properties
\* ------------------------------------------------------------------------
\* the units a reference mentions
UnitsOf(moduleData) == {moduleData.chunks[i] : i \in 1..Len(moduleData.chunks)}

\* the latest step was a requireModule call
Required == lastReq # NoReq

\* C1: over any sequence of preloadModule and requireModule calls and load
\* completions, __webpack_chunk_load__ is invoked at most once per load-unit
\* id.
C1_AtMostOneLoadPerUnit ==
  \A c \in Chunks : loadCalls[c] <= 1

\* C2: requireModule never invokes the host loader and never changes the
\* chunk cache or the async module cache, whatever the cache state; the
\* caches are written only by preloadModule and by the completion callbacks
\* it registered on the load promises.
C2_RequireWritesNoCache ==
  [][ /\ lastReq' # NoReq =>
           /\ chunkCache' = chunkCache
           /\ asyncModuleCache' = asyncModuleCache
           /\ loadCalls' = loadCalls
           /\ Len(chunkLoads') = Len(chunkLoads)
      /\ chunkCache' # chunkCache =>
           \/ \E moduleData \in Refs : preloadModule(moduleData)
           \/ RunCacheSet
      /\ asyncModuleCache' # asyncModuleCache =>
           \E moduleData \in Refs : preloadModule(moduleData) ]_vars

\* C2 witness: requireModule was called on a sync reference with an absent
\* unit and on nothing in the caches, which are still empty
C2_Witness ==
  /\ Required
  /\ ~lastReq.ref.async
  /\ lastReq.v = Undefined
  /\ \E c \in UnitsOf(lastReq.ref) : chunkCache[c] = Undefined /\ loadCalls[c] = 0

\* no load issued for a unit of the reference has been rejected
NoLoadRejected(moduleData) ==
  \A h \in 1..Len(chunkLoads) :
    chunkLoads[h].chunk \in UnitsOf(moduleData) => chunkLoads[h].st # "rejected"

\* every unit of the reference has been requested and every load issued for
\* one of them has settled successfully
AllLoadsFulfilled(moduleData) ==
  /\ \A c \in UnitsOf(moduleData) : loadCalls[c] > 0
  /\ \A h \in 1..Len(chunkLoads) :
       chunkLoads[h].chunk \in UnitsOf(moduleData) => chunkLoads[h].st = "fulfilled"

\* C3: after preloadModule(ref), when the loads issued for the units of ref
\* settle successfully and the callbacks are delivered, a caller that calls
\* requireModule(ref) and retries when the raised handle settles receives
\* the exported value: none of its calls ends in a hard failure, and once
\* the loads have settled and the job queue is empty its call returns.
C3_PreloadedRequireSucceeds ==
  (Required /\ lastReq.pre) =>
    /\ NoLoadRejected(lastReq.ref) => ~(lastReq.t = "throw" /\ ~IsHandle(lastReq.v))
    /\ (AllLoadsFulfilled(lastReq.ref) /\ microtasks = <<>>) => lastReq.t = "return"

\* the index of the first unit of the list that is not loaded, 0 if all are
FirstNotLoaded(chunks) ==
  LET S == {i \in 1..Len(chunks) : chunkCache[chunks[i]] # Null}
  IN IF S = {} THEN 0 ELSE CHOOSE i \in S : \A j \in S : i <= j

\* C4: requireModule on a sync reference is decided by the first unit, in
\* declared order, that is not loaded: the entry stored for that unit (the
\* pending handle, or the stored error) is raised and the materializer is
\* not invoked; the materializer is invoked, and a value returned, only when
\* every unit of the reference is loaded.
C4_SyncScanFirstNotLoadedWins ==
  [][ (lastReq' # NoReq /\ ~lastReq'.ref.async) =>
        LET i == FirstNotLoaded(lastReq'.ref.chunks)
        IN IF i # 0
           THEN /\ lastReq'.t = "throw"
                /\ lastReq'.v = chunkCache[lastReq'.ref.chunks[i]]
                /\ ~lastReq'.mat
           ELSE lastReq'.mat ]_vars

\* C4 witness: c1 and c2 both pending, requireModule on <<c1, c2>> raised
\* the handle of c1
C4_Witness ==
  /\ Required
  /\ lastReq.ref.chunks = <<"c1", "c2">>
  /\ chunkCache["c1"].k = "chunkPromise"
  /\ chunkCache["c2"].k = "chunkPromise"
  /\ chunkCache["c1"] # chunkCache["c2"]
  /\ lastReq.t = "throw"
  /\ lastReq.v = chunkCache["c1"]

\* further cases of C4 that are reached: the first not-loaded unit is
\* failed behind a loaded one, and all units loaded with a value returned
C4_WitnessFailedSecond ==
  /\ Required
  /\ lastReq.ref.chunks = <<"c1", "c2">>
  /\ chunkCache["c1"] = Null
  /\ chunkCache["c2"] = Err("E2")
  /\ lastReq.t = "throw" /\ lastReq.v = Err("E2")

C4_WitnessReturned ==
  /\ Required
  /\ lastReq.ref.chunks = <<"c1", "c2">>
  /\ lastReq.t = "return" /\ lastReq.mat
  /\ lastReq.v = Prim(<<"m1", "foo">>)

\* C5: requireModule on an async reference whose tracked completion is in
\* the async module cache acts on the completion's status field alone:
\* pending raises the tracked completion itself, rejected raises the stored
\* reason, fulfilled returns the projection of the stored value.
C5_AsyncActsOnStatus ==
  [][ (/\ lastReq' # NoReq
       /\ lastReq'.ref.async
       /\ asyncModuleCache[lastReq'.ref.id] # Undefined) =>
        LET handle == asyncModuleCache[lastReq'.ref.id]
            c == completions[handle.p]
        IN /\ c.status = "pending" =>
                lastReq'.t = "throw" /\ lastReq'.v = handle
           /\ c.status = "rejected" =>
                lastReq'.t = "throw" /\ lastReq'.v = c.reason
           /\ c.status = "fulfilled" =>
                lastReq'.t = "return" /\ lastReq'.v = Project(c.value, lastReq'.ref.name)
           /\ ~lastReq'.mat ]_vars

\* C5 witness: the completion is rejected and requireModule raised its reason
C5_Witness ==
  /\ Required
  /\ lastReq.ref.async
  /\ asyncModuleCache[lastReq.ref.id] # Undefined
  /\ completions[asyncModuleCache[lastReq.ref.id].p].status = "rejected"
  /\ lastReq.t = "throw"
  /\ lastReq.v = completions[asyncModuleCache[lastReq.ref.id].p].reason
  /\ lastReq.v = Err("E1")

\* further cases of C5 that are reached: pending with the completion itself
\* raised, and fulfilled with the exports returned
C5_WitnessPending ==
  /\ Required
  /\ lastReq.ref.async
  /\ lastReq.t = "throw"
  /\ lastReq.v.k = "modulePromise"
  /\ lastReq.v = asyncModuleCache[lastReq.ref.id]

C5_WitnessFulfilled ==
  /\ Required
  /\ lastReq.ref.async
  /\ lastReq.t = "return"
  /\ lastReq.v = ExportsObject("m2")
  /\ completions[asyncModuleCache[lastReq.ref.id].p].status = "fulfilled"

\* the cache-set callback of load h has been delivered
Delivered(h) ==
  \A j \in 1..Len(microtasks) :
    ~(microtasks[j].r.job = "cacheSet" /\ microtasks[j].r.chunk = chunkLoads[h].chunk)

\* the sync scan of the reference gets as far as unit c
Reaches(moduleData, c) ==
  \E i \in 1..Len(moduleData.chunks) :
    /\ moduleData.chunks[i] = c
    /\ \A j \in 1..(i - 1) : chunkCache[moduleData.chunks[j]] = Null

\* C6: once a unit's host load has rejected with e (and the callback was
\* delivered) the unit stays failed with e: the cache holds e, every
\* requireModule on a sync reference whose scan reaches the unit raises e
\* and returns no value, and the host loader is not invoked for the unit
\* again.
C6_FailedUnitReplaysError ==
  \A h \in 1..Len(chunkLoads) :
    (chunkLoads[h].st = "rejected" /\ Delivered(h)) =>
      LET c == chunkLoads[h].chunk
          e == chunkLoads[h].reason
      IN /\ chunkCache[c] = e
         /\ \A h2 \in 1..Len(chunkLoads) : h2 > h => chunkLoads[h2].chunk # c
         /\ (Required /\ ~lastReq.ref.async /\ Reaches(lastReq.ref, c)) =>
              lastReq.t = "throw" /\ lastReq.v = e

\* the async module cache entry of id m is a rejected completion
Rejected(m) ==
  /\ asyncModuleCache[m] # Undefined
  /\ completions[asyncModuleCache[m].p].status = "rejected"

RejectedReason(m) == completions[asyncModuleCache[m].p].reason

\* C7: once the tracked completion of an async module id is rejected with
\* reason r, it stays so: after any further step requireModule on that id
\* still finds a rejected completion with the identical r (and so raises r).
C7_RejectedModuleStaysRejected ==
  [][ \A m \in Modules :
        Rejected(m) => (Rejected(m)' /\ RejectedReason(m)' = RejectedReason(m)) ]_vars

\* C8: for an async module id the host materializer __webpack_require__ is
\* invoked at most once for that id.
C8_AtMostOneAsyncMaterialize ==
  \A m \in Modules : asyncRequires[m] <= 1

\* C9: the tracked completion of an async module id is created at most once:
\* once asyncModuleCache holds a handle for id m, every later step (every
\* later preloadModule with that id) leaves that same handle in the cache.
C9_CompletionCreatedOnce ==
  [][ \A m \in Modules :
        asyncModuleCache[m] # Undefined => asyncModuleCache'[m] = asyncModuleCache[m] ]_vars

\* the state of a load unit as the code reads it from chunkCache.get
UnitState(entry) ==
  IF entry = Undefined THEN "absent"
  ELSE IF entry.k = "chunkPromise" THEN "pending"
  ELSE IF entry = Null THEN "loaded"
  ELSE "failed"

\* C10: a load unit's cache state only moves absent -> pending -> loaded or
\* absent -> pending -> failed: a loaded or failed unit never changes again
\* and no unit goes back to absent or pending.
C10_UnitStateOneWay ==
  [][ \A c \in Chunks :
        LET a == UnitState(chunkCache[c])
            b == UnitState(chunkCache'[c])
        IN /\ a \in {"loaded", "failed"} => chunkCache'[c] = chunkCache[c]
           /\ a = "pending" => (chunkCache'[c] = chunkCache[c] \/ b \in {"loaded", "failed"})
           /\ a = "absent" => b \in {"absent", "pending"} ]_vars

\* the async module cache entry of id m is a fulfilled completion
Fulfilled(m) ==
  /\ asyncModuleCache[m] # Undefined
  /\ completions[asyncModuleCache[m].p].status = "fulfilled"

FulfilledValue(m) == completions[asyncModuleCache[m].p].value

\* C11: once the async module cache entry of a module id is fulfilled with
\* value v it is terminal: after any further step the entry of that id is
\* still fulfilled with v (so requireModule keeps returning the projection
\* of v and never raises a pending handle for the id again).
C11_FulfilledModuleStaysFulfilled ==
  [][ \A m \in Modules :
        Fulfilled(m) => (Fulfilled(m)' /\ FulfilledValue(m)' = FulfilledValue(m)) ]_vars

\* the latest requireModule call was on a sync reference and raised the
\* promise of a chunk load
RaisedChunkPromise ==
  /\ Required
  /\ ~lastReq.ref.async
  /\ lastReq.t = "throw"
  /\ lastReq.v.k = "chunkPromise"

\* the raised promise is the entry the chunk cache holds for the unit the
\* scan stopped at, whoever asks
RaisedHandleIsCachedEntry ==
  RaisedChunkPromise =>
    LET c == chunkLoads[lastReq.v.h].chunk
    IN chunkCache[c] = lastReq.v /\ Reaches(lastReq.ref, c)

\* C12: every requireModule call on a sync reference that suspends on a
\* pending unit raises one and the same handle: the entry the cache holds
\* for the unit, which is the handle returned by the single host-loader
\* invocation for that unit.
C12_SuspendedCallersShareHandle ==
  RaisedChunkPromise =>
    LET c == chunkLoads[lastReq.v.h].chunk
    IN /\ chunkCache[c] = lastReq.v
       /\ Reaches(lastReq.ref, c)
       /\ \A h \in 1..Len(chunkLoads) : chunkLoads[h].chunk = c => h = lastReq.v.h

\* C13: requireModule without a prior preload ends in a hard failure: on a
\* sync reference whose first not-loaded unit is absent, and on an async
\* reference with no entry in the async module cache, it raises a value that
\* is not a pending handle, returns nothing and does not invoke the
\* materializer.
C13_RequireBeforePreloadFailsHard ==
  [][ lastReq' # NoReq =>
        LET moduleData == lastReq'.ref
            i == FirstNotLoaded(moduleData.chunks)
            unprepared ==
              IF moduleData.async
              THEN asyncModuleCache[moduleData.id] = Undefined
              ELSE i # 0 /\ chunkCache[moduleData.chunks[i]] = Undefined
        IN unprepared =>
             /\ lastReq'.t = "throw"
             /\ ~IsHandle(lastReq'.v)
             /\ ~lastReq'.mat ]_vars

\* C13 witness: c1 is loaded, c2 was never requested, and requireModule on
\* <<c1, c2>> raised the absent entry
C13_Witness ==
  /\ Required
  /\ lastReq.ref.chunks = <<"c1", "c2">>
  /\ chunkCache["c1"] = Null
  /\ chunkCache["c2"] = Undefined
  /\ loadCalls["c2"] = 0
  /\ lastReq.t = "throw"
  /\ lastReq.v = Undefined
  /\ ~lastReq.mat

\* the async case of C13 is reached too: no entry for the id, a TypeError
\* raised
C13_WitnessAsync ==
  /\ Required
  /\ lastReq.ref.async
  /\ asyncModuleCache[lastReq.ref.id] = Undefined
  /\ lastReq.t = "throw"
  /\ lastReq.v = Err("TypeError")

\* the positions of a unit list that hold the first mention of a unit the
\* cache reads as absent
AbsentPositions(chunks) ==
  {i \in 1..Len(chunks) :
     /\ chunkCache[chunks[i]] = Undefined
     /\ \A j \in 1..(i - 1) : chunks[j] # chunks[i]}

\* the units at the positions S, by increasing position
RECURSIVE UnitsInOrder(_, _)
UnitsInOrder(chunks, S) ==
  IF S = {} THEN <<>>
  ELSE LET i == CHOOSE i \in S : \A j \in S : i <= j
       IN <<chunks[i]>> \o UnitsInOrder(chunks, S \ {i})

\* the units of the loads from index n on, in invocation order
RECURSIVE LoadedFrom(_, _)
LoadedFrom(loads, n) ==
  IF n > Len(loads) THEN <<>>
  ELSE <<loads[n].chunk>> \o LoadedFrom(loads, n + 1)

\* C14: a single preloadModule call invokes the host loader for the absent
\* units of the reference in the declared order of its unit list, once per
\* absent unit, and not for units that are pending, loaded or failed; the
\* call raises nothing, whatever the cache state.
C14_PreloadLoadsAbsentUnitsInOrder ==
  [][ \A moduleData \in Refs :
        preloadModule(moduleData) =>
          LET absent == AbsentPositions(moduleData.chunks)
          IN /\ LoadedFrom(chunkLoads', Len(chunkLoads) + 1) =
                  UnitsInOrder(moduleData.chunks, absent)
             /\ \A c \in Chunks :
                  loadCalls'[c] = loadCalls[c] +
                    (IF \E i \in absent : moduleData.chunks[i] = c THEN 1 ELSE 0)
             /\ \A c \in Chunks :
                  chunkCache[c] # Undefined => chunkCache'[c] = chunkCache[c]
             /\ lastReq' = NoReq ]_vars

\* C14 witness: one preloadModule call on <<c1, c2>> with both units absent
\* has invoked the loader for c1 and then for c2
C14_Witness ==
  /\ preloaded = {[id |-> "m1", chunks |-> <<"c1", "c2">>, async |-> FALSE]}
  /\ Len(chunkLoads) = 2
  /\ chunkLoads[1].chunk = "c1"
  /\ chunkLoads[2].chunk = "c2"
  /\ loadCalls = [c \in Chunks |-> 1]

\* the dedup case of C14 is reached too: c2 was pending (requested once for
\* <<c2, c2>>) and preloadModule on <<c1, c2>> invoked the loader for c1 only
C14_WitnessPendingSkipped ==
  /\ Len(chunkLoads) = 2
  /\ chunkLoads[1].chunk = "c2"
  /\ chunkLoads[2].chunk = "c1"
  /\ loadCalls = [c \in Chunks |-> 1]

\* C15: export projection in requireModule, on the sync and the async path:
\* name "*" returns the exports object itself; name "" returns
\* exports.default when the exports object is marked __esModule and the
\* exports object itself otherwise; any other name returns exports[name].
C15_ExportProjection ==
  (Required /\ lastReq.t = "return") =>
    LET moduleData == lastReq.ref
        moduleExports == ExportsObject(moduleData.id)
        marked == ModuleExports[moduleData.id].esModule
    IN /\ moduleData.name = "*" => lastReq.v = moduleExports
       /\ (moduleData.name = "" /\ marked) =>
            lastReq.v = Prim(<<moduleData.id, "default">>)
       /\ (moduleData.name = "" /\ ~marked) => lastReq.v = moduleExports
       /\ moduleData.name \notin {"*", ""} =>
            lastReq.v = GetProp(moduleExports, moduleData.name)

\* C15 witness: the async path returned for name "" on exports not marked
\* __esModule
C15_Witness ==
  /\ Required
  /\ lastReq.t = "return"
  /\ lastReq.ref.async
  /\ lastReq.ref.name = ""
  /\ ~ModuleExports[lastReq.ref.id].esModule
  /\ lastReq.v = ExportsObject(lastReq.ref.id)

\* the other cases of C15 are reached: name "" on marked exports (sync),
\* a named export (sync) and "*" (async)
C15_WitnessDefault ==
  /\ Required
  /\ lastReq.t = "return"
  /\ ~lastReq.ref.async
  /\ lastReq.ref.name = ""
  /\ lastReq.v = Prim(<<"m3", "default">>)

C15_WitnessNamed ==
  /\ Required
  /\ lastReq.t = "return"
  /\ lastReq.ref.name = "foo"
  /\ lastReq.v = Prim(<<"m1", "foo">>)

C15_WitnessStar ==
  /\ Required
  /\ lastReq.t = "return"
  /\ lastReq.ref.name = "*"
  /\ lastReq.v = ExportsObject("m2")

\* C16: resolveModuleReference(config, raw): with config absent it returns
\* raw unchanged; with config present and raw.async true it returns a new
\* reference with the id, chunks and name of config[raw.id][raw.name] and
\* async true, whatever the entry's own async flag; with config present and
\* raw.async false it returns the entry config[raw.id][raw.name] itself; the
\* result depends on neither cache and the call changes neither cache.
C16_ResolveModuleReference ==
  [][ lastReq'.t = "resolve" =>
        LET config == lastReq'.bundlerConfig
            raw == lastReq'.moduleData
            out == lastReq'.out
            present == /\ config # Null
                       /\ raw.id \in DOMAIN config
                       /\ raw.name \in DOMAIN config[raw.id]
        IN /\ config = Null => out = ReturnObject("moduleData", raw)
           /\ present =>
                LET entry == config[raw.id][raw.name]
                IN /\ raw.async =>
                        /\ out.t = "return"
                        /\ out.obj = "new"
                        /\ out.v.id = entry.id
                        /\ out.v.chunks = entry.chunks
                        /\ out.v.name = entry.name
                        /\ out.v.async = TRUE
                        /\ DOMAIN out.v = {"id", "chunks", "name", "async"}
                   /\ ~raw.async => out = ReturnObject("resolvedModuleData", entry)
           /\ chunkCache' = chunkCache
           /\ asyncModuleCache' = asyncModuleCache ]_vars

\* C16 witness: with caches that hold entries, an async raw reference was
\* resolved through an entry whose own async flag is false
C16_Witness ==
  /\ lastReq.t = "resolve"
  /\ lastReq.bundlerConfig = SSRMap
  /\ lastReq.moduleData.async
  /\ lastReq.moduleData.id = "s2"
  /\ lastReq.moduleData.name = "*"
  /\ ~SSRMap["s2"]["*"].async
  /\ lastReq.out.t = "return"
  /\ lastReq.out.v.async
  /\ chunkCache["c1"] # Undefined
  /\ asyncModuleCache["m2"] # Undefined

\* the other cases of C16 are reached: the entry returned as it is, with its
\* own async flag true, for a raw reference that is not async; and the raw
\* reference returned when no config is given
C16_WitnessVerbatim ==
  /\ lastReq.t = "resolve"
  /\ lastReq.bundlerConfig = SSRMap
  /\ ~lastReq.moduleData.async
  /\ lastReq.out = ReturnObject("resolvedModuleData", SSRMap["s1"]["*"])
  /\ lastReq.out.v.async

C16_WitnessNoConfig ==
  /\ lastReq.t = "resolve"
  /\ lastReq.bundlerConfig = Null
  /\ lastReq.out.obj = "moduleData"
  /\ lastReq.out.v \in Refs

\* C17: the host materializer __webpack_require__(id) is invoked for a
\* reference, on the sync path of requireModule and in the async completion
\* composed by preloadModule alike, only in a state where every unit of that
\* reference's unit list is loaded; an async preload of a reference whose
\* units were put in flight (or failed) by an earlier preload of another
\* reference does not materialize the module before those units have loaded.
C17_MaterializeOnlyWhenUnitsLoaded ==
  [][ /\ (lastReq' # NoReq /\ lastReq'.t \in {"return", "throw"} /\ lastReq'.mat) =>
           \A c \in UnitsOf(lastReq'.ref) : chunkCache[c] = Null
      /\ \A id \in Modules :
           asyncRequires'[id] > asyncRequires[id] =>
             \A moduleData \in Refs :
               (moduleData.async /\ moduleData.id = id) =>
                 \A c \in UnitsOf(moduleData) : chunkCache[c] = Null ]_vars

\* the sync half of C17 alone: requireModule reaches line 119 only in a
\* state where every unit of the reference is recorded as loaded
C17_SyncMaterializeOnlyWhenUnitsLoaded ==
  [][ (lastReq' # NoReq /\ lastReq'.t \in {"return", "throw"} /\ lastReq'.mat) =>
        \A c \in UnitsOf(lastReq'.ref) : chunkCache[c] = Null ]_vars

\* the latest step was a retry of requireModule, run from the callback a
\* caller subscribed to the handle lastReq.prev
Retried == Required /\ lastReq.retry

\* C18: the cache-updating callbacks are registered on a handle before any
\* caller can subscribe to it, so the cache is updated first: whenever a
\* caller's retry callback, subscribed to a handle that requireModule raised,
\* runs after that handle settles, the unit is already loaded or failed (sync
\* path) or the tracked completion already carries status fulfilled or
\* rejected (async path), and the retried requireModule never raises that
\* same handle again.
C18_RetrySeesSettledCache ==
  Retried =>
    /\ lastReq.prev.k = "chunkPromise" =>
         UnitState(chunkCache[chunkLoads[lastReq.prev.h].chunk]) \in {"loaded", "failed"}
    /\ lastReq.prev.k = "modulePromise" =>
         completions[lastReq.prev.p].status \in {"fulfilled", "rejected"}
    /\ ~(lastReq.t = "throw" /\ lastReq.v = lastReq.prev)

\* the ordering C18 rests on: when the retry runs, the callback of line 70
\* has already replaced the handle in chunkCache (by whatever value the
\* handle settled with), the callbacks of lines 78-87 have already set the
\* status, and the retry does not raise the handle again
RetryRunsAfterCacheUpdate ==
  Retried =>
    /\ lastReq.prev.k = "chunkPromise" =>
         /\ chunkLoads[lastReq.prev.h].st # "pending"
         /\ chunkCache[chunkLoads[lastReq.prev.h].chunk] # lastReq.prev
    /\ lastReq.prev.k = "modulePromise" =>
         completions[lastReq.prev.p].status \in {"fulfilled", "rejected"}
    /\ ~(lastReq.t = "throw" /\ lastReq.v = lastReq.prev)

\* some host-loader handle of unit c rejected
RejectedUnit(c) ==
  \E h \in 1..Len(chunkLoads) : chunkLoads[h].chunk = c /\ chunkLoads[h].st = "rejected"

\* chunkCache records a unit as loaded only if a handle of it fulfilled
LoadedOnlyIfFulfilled ==
  \A c \in Chunks : chunkCache[c] = Null => HostLoaded(c)

\* a step in which requireModule returns no export value for a sync
\* reference that mentions a unit whose handle rejected
RejectedUnitNotReturned ==
  (lastReq' # NoReq /\ lastReq'.t = "return" /\ ~lastReq'.ref.async) =>
    \A c \in UnitsOf(lastReq'.ref) : ~RejectedUnit(c)

\* a step in which the loader is not invoked again for a unit whose handle
\* rejected
RejectedUnitNotReloaded ==
  \A c \in Chunks : RejectedUnit(c) => loadCalls'[c] = loadCalls[c]

RejectedUnitNeverReturned == [][RejectedUnitNotReturned]_vars

RejectedUnitNeverReloaded == [][RejectedUnitNotReloaded]_vars

\* C19: a load unit is recorded as loaded only if its host-loader handle
\* settled successfully: for every rejection value the loader can produce,
\* null and undefined included, a unit whose handle rejected is never
\* treated as loaded by requireModule (no export value is returned for a
\* sync reference that mentions it) and never treated as absent by a later
\* preloadModule (the loader is not invoked for it again).
C19_RejectedUnitNeverLoadedNorAbsent ==
  [][ /\ LoadedOnlyIfFulfilled'
      /\ RejectedUnitNotReturned
      /\ RejectedUnitNotReloaded ]_vars
====
